---- MODULE Spec2Model ----
(***************************************************************************)
(* A model of scrape.py, the multi-channel XMLTV generator:                *)
(*   - the text helpers clean_text and parse_hhmm,                         *)
(*   - the Teleamazonas day extractor ta_extract_points_from_article,      *)
(*   - points_to_programmes (midnight rollover and stop inference),        *)
(*   - the per-day body and the final sort/dedup of scrape_teleamazonas,   *)
(*   - the line scan and the sort/dedup of scrape_ecdf,                    *)
(*   - the global sort/dedup of main.                                      *)
(*                                                                         *)
(* Text is a sequence of characters, each character a one-character        *)
(* string; the characters outside printable ASCII carry a name ("NBSP",    *)
(* "TAB", "i_acute", ...).  A datetime in the fixed UTC-5 zone is the      *)
(* number of minutes since 00:00 of day 0; day 0 is a Monday.              *)
(***************************************************************************)
EXTENDS Integers, Sequences, FiniteSets, TLC

VARIABLES
    pc,             \* the position of the running routine
    caller,         \* who called points_to_programmes: "direct" or "ta"
    raised,         \* the exception that left the routine, or "none"
    items,          \* the div.c-list-tv-simple__txt items of the day's article
    base_date,      \* midnight of the day the article is anchored on
    ta_points,      \* ta_extract_points_from_article: the list `points`
    channel_id,     \* points_to_programmes: its parameter channel_id
    points,         \* points_to_programmes: its parameter points
    fixed,          \* points_to_programmes: the list `fixed`
    last_dt,        \* points_to_programmes: last_dt
    progs,          \* points_to_programmes: the list `progs`
    i,              \* the index of the running loop (1-based)
    guide_lines,    \* scrape_ecdf: guide_lines
    last_title,     \* scrape_ecdf: last_title (NoTitle is None)
    programmes,     \* scrape_ecdf: the list `programmes`
    all_programmes, \* scrape_teleamazonas / main: all_programmes
    final           \* the deduplicated list a routine returns

vars == <<pc, caller, raised, items, base_date, ta_points, channel_id, points,
          fixed, last_dt, progs, i, guide_lines, last_title, programmes,
          all_programmes, final>>

-----------------------------------------------------------------------------
(* Bounds of the model. *)

\* the longest point list handed to points_to_programmes directly
MaxLen == 3
\* the most items of a generated day article
MaxItems == 2
\* the most lines of the ECDF guide
MaxLines == 4
\* the most programmes handed to the global sort/dedup
MaxProgs == 3

-----------------------------------------------------------------------------
(* Characters and strings. *)

NBSP == "NBSP"
TAB == "TAB"

\* The characters of the model in code point order.
CodeOrder ==
    <<"TAB", " ", "!", "-", ".", "0", "1", "2", "3", "4", "5", "6", "7", "8",
      "9", ":", "A", "B", "C", "D", "E", "F", "G", "H", "I", "J", "K", "L",
      "M", "N", "O", "P", "Q", "R", "S", "T", "U", "V", "W", "X", "Y", "Z",
      "a", "b", "c", "d", "e", "f", "g", "h", "i", "j", "k", "l", "m", "n",
      "o", "p", "q", "r", "s", "t", "u", "v", "w", "x", "y", "z", "NBSP",
      "i_acute", "o_acute", "u_acute">>

Chars == {CodeOrder[k] : k \in DOMAIN CodeOrder}

\* The rank of a character in code point order (only the order is used).
Ord == [c \in Chars |-> CHOOSE k \in DOMAIN CodeOrder : CodeOrder[k] = c]

UpperLetters ==
    <<"A", "B", "C", "D", "E", "F", "G", "H", "I", "J", "K", "L", "M", "N",
      "O", "P", "Q", "R", "S", "T", "U", "V", "W", "X", "Y", "Z">>

LowerLetters ==
    <<"a", "b", "c", "d", "e", "f", "g", "h", "i", "j", "k", "l", "m", "n",
      "o", "p", "q", "r", "s", "t", "u", "v", "w", "x", "y", "z">>

LowerChar ==
    [c \in Chars |->
        IF \E k \in DOMAIN UpperLetters : UpperLetters[k] = c
        THEN LowerLetters[CHOOSE k \in DOMAIN UpperLetters : UpperLetters[k] = c]
        ELSE c]

\* str.lower()
Lower(s) == [k \in DOMAIN s |-> LowerChar[s[k]]]

\* s < t for two strings: Python compares them by code point, a proper prefix first.
RECURSIVE StrLess(_, _)
StrLess(s, t) ==
    IF t = <<>> THEN FALSE
    ELSE IF s = <<>> THEN TRUE
    ELSE IF Head(s) # Head(t) THEN Ord[Head(s)] < Ord[Head(t)]
    ELSE StrLess(Tail(s), Tail(t))

Digits == <<"0", "1", "2", "3", "4", "5", "6", "7", "8", "9">>

\* \d
IsDigit(c) == \E k \in DOMAIN Digits : Digits[k] = c

DigitVal(c) == (CHOOSE k \in DOMAIN Digits : Digits[k] = c) - 1

\* int() of a string of digits
RECURSIVE IntOf(_)
IntOf(s) ==
    IF s = <<>> THEN 0
    ELSE 10 * IntOf(SubSeq(s, 1, Len(s) - 1)) + DigitVal(s[Len(s)])

\* \s
IsWs(c) == c \in {" ", TAB, NBSP}

RECURSIVE LStrip(_)
LStrip(s) == IF s # <<>> /\ IsWs(Head(s)) THEN LStrip(Tail(s)) ELSE s

RECURSIVE RStrip(_)
RStrip(s) ==
    IF s # <<>> /\ IsWs(s[Len(s)]) THEN RStrip(SubSeq(s, 1, Len(s) - 1)) ELSE s

\* str.strip()
Strip(s) == RStrip(LStrip(s))

\* s.replace("\xa0", " ")
ReplaceNbsp(s) == [k \in DOMAIN s |-> IF s[k] = NBSP THEN " " ELSE s[k]]

\* WS_RE.sub(" ", s): every run of whitespace becomes one space
RECURSIVE WsSub(_)
WsSub(s) ==
    IF s = <<>> THEN <<>>
    ELSE IF IsWs(Head(s)) THEN <<" ">> \o WsSub(LStrip(Tail(s)))
    ELSE <<Head(s)>> \o WsSub(Tail(s))

\* (AM|PM) under re.IGNORECASE at positions k, k+1 of s
IsAmPm(s, k) ==
    /\ Len(s) >= k + 1
    /\ LowerChar[s[k]] \in {"a", "p"}
    /\ LowerChar[s[k + 1]] = "m"

\* re.sub(r"^(AM|PM)\s+(AM|PM)\s+", "", s, flags=re.IGNORECASE)
DropAmPmTwice(s) ==
    IF /\ IsAmPm(s, 1) /\ Len(s) >= 3 /\ IsWs(s[3])
       /\ LET r == LStrip(SubSeq(s, 3, Len(s)))
          IN  IsAmPm(r, 1) /\ Len(r) >= 3 /\ IsWs(r[3])
    THEN LStrip(SubSeq(LStrip(SubSeq(s, 3, Len(s))), 3, Len(LStrip(SubSeq(s, 3, Len(s))))))
    ELSE s

\* re.sub(r"^(AM|PM)\s+", "", s, flags=re.IGNORECASE)
DropAmPmOnce(s) ==
    IF IsAmPm(s, 1) /\ Len(s) >= 3 /\ IsWs(s[3])
    THEN LStrip(SubSeq(s, 3, Len(s)))
    ELSE s

clean_text(s) == Strip(DropAmPmOnce(DropAmPmTwice(Strip(WsSub(ReplaceNbsp(s))))))

\* TIME_HHMM_RE = ^(\d{1,2}):(\d{2})$ on a whole string
MatchesHHMM(s) ==
    \/ /\ Len(s) = 4
       /\ IsDigit(s[1]) /\ s[2] = ":" /\ IsDigit(s[3]) /\ IsDigit(s[4])
    \/ /\ Len(s) = 5
       /\ IsDigit(s[1]) /\ IsDigit(s[2]) /\ s[3] = ":"
       /\ IsDigit(s[4]) /\ IsDigit(s[5])

\* the two groups of a string that matches TIME_HHMM_RE, as integers
HourOf(s) == IntOf(SubSeq(s, 1, Len(s) - 3))
MinuteOf(s) == IntOf(SubSeq(s, Len(s) - 1, Len(s)))

\* parse_hhmm: ok is FALSE where it raises ValueError
parse_hhmm(hhmm) ==
    LET s == clean_text(hhmm)
    IN  IF MatchesHHMM(s)
        THEN [ok |-> TRUE, hh |-> HourOf(s), mm |-> MinuteOf(s)]
        ELSE [ok |-> FALSE, hh |-> 0, mm |-> 0]

-----------------------------------------------------------------------------
(* Datetimes. *)

\* timedelta(days=1), in minutes
DayMinutes == 1440
\* timedelta(minutes=30): the default duration of a programme
DefaultMinutes == 30

\* datetime(y, m, d, hh, mm, tzinfo=ECUADOR_TZ): ok is FALSE where the
\* constructor raises ValueError (hour not in 0..23 or minute not in 0..59)
MakeDateTime(day_start, hh, mm) ==
    IF hh \in 0..23 /\ mm \in 0..59
    THEN [ok |-> TRUE, dt |-> day_start + 60 * hh + mm]
    ELSE [ok |-> FALSE, dt |-> 0]

\* "teleamazonas.ec"
TA_CHANNEL_ID ==
    <<"t", "e", "l", "e", "a", "m", "a", "z", "o", "n", "a", "s", ".", "e", "c">>
\* "ecdf.ec"
ECDF_CHANNEL_ID == <<"e", "c", "d", "f", ".", "e", "c">>

Programme(ch, start, stop, title) ==
    [channel_id |-> ch, start |-> start, stop |-> stop, title |-> title]

Point(dt, title) == [dt |-> dt, title |-> title]

-----------------------------------------------------------------------------
(* points_to_programmes *)

\* a variant of RollForward: `if` in place of `while`, a single day is added
RollForward_Once(dt, last) ==
    IF dt < last THEN dt + DayMinutes ELSE dt

\* a variant of RollForward: `<=` in place of `<`, an equal instant rolls too
RECURSIVE RollForward_Inclusive(_, _)
RollForward_Inclusive(dt, last) ==
    IF dt <= last THEN RollForward_Inclusive(dt + DayMinutes, last) ELSE dt

\* while dt < last_dt: dt = dt + timedelta(days=1)
RECURSIVE RollForward(_, _)
RollForward(dt, last) ==
    IF dt < last THEN RollForward(dt + DayMinutes, last) ELSE dt

\* a variant of NextStop: the bound of the look-ahead is off by one
NextStop_OffByOne(fx, k) ==
    IF k + 1 < Len(fx) THEN fx[k + 1].dt ELSE fx[k].dt + DefaultMinutes

\* the stop of fixed[k] before the guard: the next start, or start + 30 minutes
NextStop(fx, k) ==
    IF k + 1 <= Len(fx) THEN fx[k + 1].dt ELSE fx[k].dt + DefaultMinutes

\* a variant of GuardStop: `<` in place of `<=`, an equal stop passes
GuardStop_Strict(start, stop) ==
    IF stop < start THEN start + DefaultMinutes ELSE stop

\* if stop_dt <= start_dt: stop_dt = start_dt + timedelta(minutes=30)
GuardStop(start, stop) ==
    IF stop <= start THEN start + DefaultMinutes ELSE stop

\* `if not points: return []`, else the first point opens `fixed`
PtpEnter ==
    /\ pc = "ptp_call"
    /\ IF points = <<>>
       THEN /\ progs' = <<>>
            /\ pc' = "ptp_ret"
            /\ UNCHANGED <<fixed, last_dt, i>>
       ELSE /\ fixed' = <<points[1]>>
            /\ last_dt' = points[1].dt
            /\ i' = 2
            /\ pc' = "ptp_norm"
            /\ UNCHANGED progs
    /\ UNCHANGED <<caller, raised, items, base_date, ta_points, channel_id,
                   points, guide_lines, last_title, programmes,
                   all_programmes, final>>

\* one pass of `for dt, title in points[1:]`
NormalizeStep ==
    /\ pc = "ptp_norm"
    /\ i <= Len(points)
    /\ LET dt == RollForward(points[i].dt, last_dt)
       IN  /\ fixed' = Append(fixed, Point(dt, points[i].title))
           /\ last_dt' = dt
    /\ i' = i + 1
    /\ UNCHANGED <<pc, caller, raised, items, base_date, ta_points,
                   channel_id, points, progs, guide_lines, last_title,
                   programmes, all_programmes, final>>

\* the first loop is over: progs = []
NormalizeDone ==
    /\ pc = "ptp_norm"
    /\ i > Len(points)
    /\ progs' = <<>>
    /\ i' = 1
    /\ pc' = "ptp_build"
    /\ UNCHANGED <<caller, raised, items, base_date, ta_points, channel_id,
                   points, fixed, last_dt, guide_lines, last_title,
                   programmes, all_programmes, final>>

\* one pass of `for i in range(len(fixed))`
BuildStep ==
    /\ pc = "ptp_build"
    /\ i <= Len(fixed)
    /\ progs' = Append(progs,
                       Programme(channel_id, fixed[i].dt,
                                 GuardStop(fixed[i].dt, NextStop(fixed, i)),
                                 fixed[i].title))
    /\ i' = i + 1
    /\ UNCHANGED <<pc, caller, raised, items, base_date, ta_points,
                   channel_id, points, fixed, last_dt, guide_lines,
                   last_title, programmes, all_programmes, final>>

\* return progs
PtpReturn ==
    /\ pc = "ptp_build"
    /\ i > Len(fixed)
    /\ pc' = "ptp_ret"
    /\ UNCHANGED <<caller, raised, items, base_date, ta_points, channel_id,
                   points, fixed, last_dt, progs, i, guide_lines, last_title,
                   programmes, all_programmes, final>>

-----------------------------------------------------------------------------
(* Sorting and deduplication. *)

\* the elements of s at the indexes in K, in the order of s
RECURSIVE PickIdx(_, _, _)
PickIdx(s, K, k) ==
    IF k > Len(s) THEN <<>>
    ELSE (IF k \in K THEN <<s[k]>> ELSE <<>>) \o PickIdx(s, K, k + 1)

\* (p.start, p.stop, p.title.lower()) of a < that of b, as Python orders tuples
ProgKeyLess(a, b) ==
    \/ a.start < b.start
    \/ /\ a.start = b.start
       /\ \/ a.stop < b.stop
          \/ a.stop = b.stop /\ StrLess(Lower(a.title), Lower(b.title))

\* a variant of MainKeyLess: the sort key holds p.title, not p.title.lower()
MainKeyLess_RawTitle(a, b) ==
    \/ StrLess(a.channel_id, b.channel_id)
    \/ /\ a.channel_id = b.channel_id
       /\ \/ a.start < b.start
          \/ /\ a.start = b.start
             /\ \/ a.stop < b.stop
                \/ a.stop = b.stop /\ StrLess(a.title, b.title)

\* (p.channel_id, p.start, p.stop, p.title.lower()) of a < that of b
MainKeyLess(a, b) ==
    \/ StrLess(a.channel_id, b.channel_id)
    \/ a.channel_id = b.channel_id /\ ProgKeyLess(a, b)

\* the sort keys: "dt" is x[0] of a point, "prog" the key of the two scrapers,
\* "main" the key of main
KeyLess(kind, a, b) ==
    CASE kind = "dt" -> a.dt < b.dt
      [] kind = "prog" -> ProgKeyLess(a, b)
      [] kind = "main" -> MainKeyLess(a, b)

RECURSIVE InsertSorted(_, _, _)
InsertSorted(kind, x, s) ==
    IF s = <<>> THEN <<x>>
    ELSE IF KeyLess(kind, x, Head(s)) THEN <<x>> \o s
    ELSE <<Head(s)>> \o InsertSorted(kind, x, Tail(s))

\* list.sort(key=...): a stable sort, equal keys keep their order
RECURSIVE StableSort(_, _)
StableSort(kind, s) ==
    IF s = <<>> THEN <<>>
    ELSE InsertSorted(kind, s[Len(s)], StableSort(kind, SubSeq(s, 1, Len(s) - 1)))

\* key = (p.start, p.stop, p.title.lower())
ProgKey(p) == <<p.start, p.stop, Lower(p.title)>>

\* key = (p.channel_id, p.start, p.stop, p.title.lower())
MainKey(p) == <<p.channel_id, p.start, p.stop, Lower(p.title)>>

\* scrape_teleamazonas: sort, then keep an item when its key differs from the
\* key of the item before it
TaSortDedup(ps) ==
    LET s == StableSort("prog", ps)
    IN  PickIdx(s, {k \in 1..Len(s) : k = 1 \/ ProgKey(s[k]) # ProgKey(s[k - 1])}, 1)

\* main: sort, then keep an item when its key differs from the key of the item
\* before it
MainSortDedup(ps) ==
    LET s == StableSort("main", ps)
    IN  PickIdx(s, {k \in 1..Len(s) : k = 1 \/ MainKey(s[k]) # MainKey(s[k - 1])}, 1)

\* scrape_ecdf: sort, then keep the first item of every key (the set `seen`)
EcdfSortDedup(ps) ==
    LET s == StableSort("prog", ps)
    IN  PickIdx(s, {k \in 1..Len(s) :
                       \A j \in 1..(k - 1) : MainKey(s[j]) # MainKey(s[k])}, 1)

-----------------------------------------------------------------------------
(* ta_extract_points_from_article and the day body of scrape_teleamazonas *)

\* An item of the article: whether it has a <span> and a <p>, and the text
\* get_text(" ", strip=True) gives for each.
Item(has_span, span, has_p, p) ==
    [has_span |-> has_span, span |-> span, has_p |-> has_p, p |-> p]

\* One pass of `for it in items`: the item is skipped (continue), gives a
\* point, or the datetime constructor raises ValueError outside the try.
ExtractItem(it, day_start) ==
    IF ~it.has_span \/ ~it.has_p THEN [kind |-> "skip"]
    ELSE LET time_text == clean_text(it.span)
             title_text == clean_text(it.p)
             t == parse_hhmm(time_text)
         IN  IF time_text = <<>> \/ title_text = <<>> THEN [kind |-> "skip"]
             ELSE IF ~t.ok THEN [kind |-> "skip"]
             ELSE IF ~MakeDateTime(day_start, t.hh, t.mm).ok
                  THEN [kind |-> "raise"]
             ELSE [kind |-> "point",
                   point |-> Point(MakeDateTime(day_start, t.hh, t.mm).dt,
                                   title_text)]

\* key = (dt.isoformat(), title.lower()); isoformat is one to one on instants
PointKey(p) == <<p.dt, Lower(p.title)>>

\* the first point of every key, then dedup.sort(key=lambda x: x[0])
DedupSortPoints(ps) ==
    StableSort("dt",
               PickIdx(ps, {k \in 1..Len(ps) :
                               \A j \in 1..(k - 1) : PointKey(ps[j]) # PointKey(ps[k])}, 1))

\* one pass of the loop over the items
TaExtractStep ==
    /\ pc = "ta_extract"
    /\ i <= Len(items)
    /\ LET r == ExtractItem(items[i], base_date)
       IN  IF r.kind = "raise"
           THEN /\ raised' = "ValueError"
                /\ pc' = "raised"
                /\ UNCHANGED <<ta_points, i>>
           ELSE /\ ta_points' = IF r.kind = "point"
                                THEN Append(ta_points, r.point)
                                ELSE ta_points
                /\ i' = i + 1
                /\ UNCHANGED <<pc, raised>>
    /\ UNCHANGED <<caller, items, base_date, channel_id, points, fixed,
                   last_dt, progs, guide_lines, last_title, programmes,
                   all_programmes, final>>

\* the extractor dedups, sorts and returns; scrape_teleamazonas hands the
\* result to points_to_programmes(TA_CHANNEL_ID, points)
TaExtractReturn ==
    /\ pc = "ta_extract"
    /\ i > Len(items)
    /\ points' = DedupSortPoints(ta_points)
    /\ channel_id' = TA_CHANNEL_ID
    /\ pc' = "ptp_call"
    /\ UNCHANGED <<caller, raised, items, base_date, ta_points, fixed,
                   last_dt, progs, i, guide_lines, last_title, programmes,
                   all_programmes, final>>

\* all_programmes.extend(progs)
TaExtend ==
    /\ pc = "ptp_ret"
    /\ caller = "ta"
    /\ all_programmes' = all_programmes \o progs
    /\ pc' = "ta_sort"
    /\ UNCHANGED <<caller, raised, items, base_date, ta_points, channel_id,
                   points, fixed, last_dt, progs, i, guide_lines, last_title,
                   programmes, final>>

\* "Sort and remove exact duplicates", return dedup
TaFinish ==
    /\ pc = "ta_sort"
    /\ final' = TaSortDedup(all_programmes)
    /\ pc' = "ta_done"
    /\ UNCHANGED <<caller, raised, items, base_date, ta_points, channel_id,
                   points, fixed, last_dt, progs, i, guide_lines, last_title,
                   programmes, all_programmes>>

-----------------------------------------------------------------------------
(* scrape_ecdf *)

NoTitle == <<>>

\* the index of the first "-" of s, or 0
FirstDash(s) ==
    IF \E k \in DOMAIN s : s[k] = "-"
    THEN CHOOSE k \in DOMAIN s : s[k] = "-" /\ \A j \in 1..(k - 1) : s[j] # "-"
    ELSE 0

\* TIME_RANGE_RE.match(line): ^\s*(\d{1,2}):(\d{2})\s*-\s*(\d{1,2}):(\d{2})\s*$
\* No time holds a "-", so the first "-" of a matching line is the separator.
MatchRange(line) ==
    LET t == Strip(line)
        k == FirstDash(t)
        left == IF k = 0 THEN <<>> ELSE RStrip(SubSeq(t, 1, k - 1))
        right == IF k = 0 THEN <<>> ELSE LStrip(SubSeq(t, k + 1, Len(t)))
    IN  IF k # 0 /\ MatchesHHMM(left) /\ MatchesHHMM(right)
        THEN [ok |-> TRUE, sh |-> HourOf(left), sm |-> MinuteOf(left),
              eh |-> HourOf(right), em |-> MinuteOf(right)]
        ELSE [ok |-> FALSE, sh |-> 0, sm |-> 0, eh |-> 0, em |-> 0]

\* the set `bad` of _meaningful_line
BadLines ==
    {<<"e", "n", " ", "v", "i", "v", "o">>,
      <<"q", "u", "e", "d", "a", "n", ":">>,
      <<"g", "u", "i_acute", "a", " ", "d", "e", " ", "p", "r", "o", "g",
        "r", "a", "m", "a", "c", "i", "o_acute", "n">>,
      <<"g", "u", "i", "a", " ", "d", "e", " ", "p", "r", "o", "g", "r", "a",
        "m", "a", "c", "i", "o_acute", "n">>,
      <<"c", "a", "n", "a", "l", "e", "s">>,
      <<"t", "o", "d", "o", "s", " ", "l", "o", "s", " ", "c", "a", "n", "a",
        "l", "e", "s", " ", "f", "u_acute", "t", "b", "o", "l", " ", "h",
        "i_acute", "p", "i", "c", "a", " ", "g", "o", "l", "f">>,
      <<"s", "u", "s", "c", "r", "i_acute", "b", "e", "t", "e">>,
      <<"s", "u", "s", "c", "r", "i_acute", "b", "e", "t", "e", " ", "p",
        "a", "r", "a", " ", "c", "o", "n", "t", "i", "n", "u", "a", "r">>,
      <<"e", "s", "t", "e", " ", "c", "o", "n", "t", "e", "n", "i", "d", "o",
        " ", "r", "e", "q", "u", "i", "e", "r", "e", " ", "u", "n", "a", " ",
        "s", "u", "s", "c", "r", "i", "p", "c", "i", "o_acute", "n", " ",
        "a", "c", "t", "i", "v", "a", ".", " ", "m", "e", "j", "o", "r", "a",
        " ", "t", "u", " ", "p", "l", "a", "n", " ", "p", "a", "r", "a", " ",
        "v", "e", "r", "l", "o", ".">>,
      <<"e", "m", "p", "t", "y", " ", "!", "!">>}

_meaningful_line(s) ==
    LET c == clean_text(s)
    IN  c # <<>> /\ Lower(c) \notin BadLines

\* "Handle midnight rollover": if stop_dt <= start_dt: stop_dt += one day
EcdfStop(start_dt, stop_dt) ==
    IF stop_dt <= start_dt THEN stop_dt + DayMinutes ELSE stop_dt

\* a variant of TitleAfterRange: last_title is not reset
TitleAfterRange_Keep(title) == title

\* last_title after a time range line has produced its programme
TitleAfterRange(title) == NoTitle

\* One pass of `for line in guide_lines`, from last_title `lt` and the list
\* `ps`: the new last_title and list, and whether a datetime constructor raised.
EcdfScanLine(line, day_start, lt, ps) ==
    LET m == MatchRange(line)
        start_dt == MakeDateTime(day_start, m.sh, m.sm)
        stop_dt == MakeDateTime(day_start, m.eh, m.em)
    IN  IF line = <<>> THEN [last_title |-> lt, programmes |-> ps, raises |-> FALSE]
        ELSE IF m.ok
        THEN IF lt = NoTitle
             THEN [last_title |-> lt, programmes |-> ps, raises |-> FALSE]
             ELSE IF ~start_dt.ok \/ ~stop_dt.ok
             THEN [last_title |-> lt, programmes |-> ps, raises |-> TRUE]
             ELSE [last_title |-> TitleAfterRange(lt),
                   programmes |-> Append(ps, Programme(ECDF_CHANNEL_ID, start_dt.dt,
                                             EcdfStop(start_dt.dt, stop_dt.dt), lt)),
                   raises |-> FALSE]
        ELSE IF _meaningful_line(line) /\ ~MatchRange(line).ok
        THEN [last_title |-> line, programmes |-> ps, raises |-> FALSE]
        ELSE [last_title |-> lt, programmes |-> ps, raises |-> FALSE]

\* one pass of the loop over guide_lines
EcdfScanStep ==
    /\ pc = "ecdf_scan"
    /\ i <= Len(guide_lines)
    /\ LET r == EcdfScanLine(guide_lines[i], base_date, last_title, programmes)
       IN  IF r.raises
           THEN /\ raised' = "ValueError"
                /\ pc' = "raised"
                /\ UNCHANGED <<last_title, programmes, i>>
           ELSE /\ last_title' = r.last_title
                /\ programmes' = r.programmes
                /\ i' = i + 1
                /\ UNCHANGED <<pc, raised>>
    /\ UNCHANGED <<caller, items, base_date, ta_points, channel_id, points,
                   fixed, last_dt, progs, guide_lines, all_programmes, final>>

\* "Dedup + sort"; RuntimeError when nothing is left
EcdfFinish ==
    /\ pc = "ecdf_scan"
    /\ i > Len(guide_lines)
    /\ IF EcdfSortDedup(programmes) = <<>>
       THEN /\ raised' = "RuntimeError"
            /\ pc' = "raised"
            /\ UNCHANGED final
       ELSE /\ final' = EcdfSortDedup(programmes)
            /\ pc' = "ecdf_done"
            /\ UNCHANGED raised
    /\ UNCHANGED <<caller, items, base_date, ta_points, channel_id, points,
                   fixed, last_dt, progs, i, guide_lines, last_title,
                   programmes, all_programmes>>

-----------------------------------------------------------------------------
(* main *)

\* "Global sort + dedup (just in case)"
MainAggregate ==
    /\ pc = "main_sort"
    /\ final' = MainSortDedup(all_programmes)
    /\ pc' = "main_done"
    /\ UNCHANGED <<caller, raised, items, base_date, ta_points, channel_id,
                   points, fixed, last_dt, progs, i, guide_lines, last_title,
                   programmes, all_programmes>>

-----------------------------------------------------------------------------
(* Inputs. *)

\* "A"
T_A == <<"A">>
\* "B"
T_B == <<"B">>
\* "Teleserie"
T_Teleserie ==
    <<"T", "e", "l", "e", "s", "e", "r", "i", "e">>
\* "TELESERIE"
T_TELESERIE ==
    <<"T", "E", "L", "E", "S", "E", "R", "I", "E">>
\* "Noticias Quito"
T_NoticiasQuito ==
    <<"N", "o", "t", "i", "c", "i", "a", "s", " ", "Q", "u", "i", "t", "o">>
\* "Noticias Guayaquil"
T_NoticiasGuayaquil ==
    <<"N", "o", "t", "i", "c", "i", "a", "s", " ", "G", "u", "a", "y", "a",
      "q", "u", "i", "l">>
\* "Despertar"
T_Despertar ==
    <<"D", "e", "s", "p", "e", "r", "t", "a", "r">>
\* "Noticias"
T_Noticias ==
    <<"N", "o", "t", "i", "c", "i", "a", "s">>
\* "Cine"
T_Cine ==
    <<"C", "i", "n", "e">>
\* "Madrugada"
T_Madrugada ==
    <<"M", "a", "d", "r", "u", "g", "a", "d", "a">>
\* "05:00"
H_0500 ==
    <<"0", "5", ":", "0", "0">>
\* "06:00"
H_0600 ==
    <<"0", "6", ":", "0", "0">>
\* "23:30"
H_2330 ==
    <<"2", "3", ":", "3", "0">>
\* "00:15"
H_0015 ==
    <<"0", "0", ":", "1", "5">>
\* "0:15"
H_015 ==
    <<"0", ":", "1", "5">>
\* "25:00"
H_2500 ==
    <<"2", "5", ":", "0", "0">>
\* "12:75"
H_1275 ==
    <<"1", "2", ":", "7", "5">>
\* "AM 05:00"
H_AM0500 ==
    <<"A", "M", " ", "0", "5", ":", "0", "0">>
\* "7pm"
H_7pm ==
    <<"7", "p", "m">>
\* "Gala"
T_Gala ==
    <<"G", "a", "l", "a">>
\* "Liga Pro"
L_LigaPro ==
    <<"L", "i", "g", "a", " ", "P", "r", "o">>
\* "Golf"
L_Golf ==
    <<"G", "o", "l", "f">>
\* "GOLF"
L_GOLF ==
    <<"G", "O", "L", "F">>
\* "En vivo"
L_EnVivo ==
    <<"E", "n", " ", "v", "i", "v", "o">>
\* "canales"
L_Canales ==
    <<"c", "a", "n", "a", "l", "e", "s">>
\* "10:00 - 11:00"
R_1000_1100 ==
    <<"1", "0", ":", "0", "0", " ", "-", " ", "1", "1", ":", "0", "0">>
\* "23:00 - 01:00"
R_2300_0100 ==
    <<"2", "3", ":", "0", "0", " ", "-", " ", "0", "1", ":", "0", "0">>
\* "10:00-10:00"
R_1000_1000 ==
    <<"1", "0", ":", "0", "0", "-", "1", "0", ":", "0", "0">>
\* "25:00 - 26:00"
R_2500_2600 ==
    <<"2", "5", ":", "0", "0", " ", "-", " ", "2", "6", ":", "0", "0">>

\* the instants of the points handed to points_to_programmes directly:
\* 01:00, 05:55, 06:00, 07:00 and 22:00 of day 0, 22:00 of day 1, 06:00 of day 2
InputInstants == {60, 355, 360, 420, 1320, 2760, 3240}

InputPoints == {Point(dt, t) : dt \in InputInstants, t \in {T_A, T_B}}

\* the sequences over S of length at most n
RECURSIVE SeqsUpTo(_, _)
SeqsUpTo(S, n) ==
    IF n = 0 THEN {<<>>}
    ELSE LET shorter == SeqsUpTo(S, n - 1)
         IN  shorter \cup {Append(s, x) : s \in {t \in shorter : Len(t) = n - 1}, x \in S}

\* the texts of the <span> of an item
TimeTexts == {H_0500, H_2330, H_015, H_2500, H_1275, H_AM0500, H_7pm, <<>>}

\* the texts of the <p> of an item
TitleTexts == {T_Teleserie, T_TELESERIE, T_NoticiasQuito, T_NoticiasGuayaquil, <<>>}

InputItems ==
    {Item(TRUE, s, TRUE, p) : s \in TimeTexts, p \in TitleTexts}
        \cup {Item(FALSE, <<>>, TRUE, T_Teleserie)}

\* a Monday panel: 05:00 Despertar, 06:00 Noticias, 23:30 Cine, 00:15 Madrugada
MondayPanel ==
    <<Item(TRUE, H_0500, TRUE, T_Despertar), Item(TRUE, H_0600, TRUE, T_Noticias),
      Item(TRUE, H_2330, TRUE, T_Cine), Item(TRUE, H_0015, TRUE, T_Madrugada)>>

\* the lines of the ECDF guide: clean_text leaves each of them as it is
InputLines ==
    {L_LigaPro, L_Golf, L_EnVivo, L_Canales,
     R_1000_1100, R_2300_0100, R_1000_1000, R_2500_2600}

\* the programmes handed to the global sort/dedup
InputProgrammes ==
    {Programme(ch, 0, stop, t) :
        ch \in {TA_CHANNEL_ID, ECDF_CHANNEL_ID}, stop \in {30, 60},
        t \in {L_Golf, L_GOLF, T_Gala}}

\* points_to_programmes is called with a list of points
InitPtp ==
    /\ pc = "ptp_call"
    /\ caller = "direct"
    /\ raised = "none"
    /\ items = <<>>
    /\ base_date = 0
    /\ ta_points = <<>>
    /\ channel_id = TA_CHANNEL_ID
    /\ points \in SeqsUpTo(InputPoints, MaxLen)
    /\ fixed = <<>>
    /\ last_dt = 0
    /\ progs = <<>>
    /\ i = 1
    /\ guide_lines = <<>>
    /\ last_title = NoTitle
    /\ programmes = <<>>
    /\ all_programmes = <<>>
    /\ final = <<>>

\* scrape_ecdf has cut guide_lines out of the page; today is day 0
InitEcdf ==
    /\ pc = "ecdf_scan"
    /\ caller = "direct"
    /\ raised = "none"
    /\ items = <<>>
    /\ base_date = 0
    /\ ta_points = <<>>
    /\ channel_id = ECDF_CHANNEL_ID
    /\ points = <<>>
    /\ fixed = <<>>
    /\ last_dt = 0
    /\ progs = <<>>
    /\ i = 1
    /\ guide_lines \in SeqsUpTo(InputLines, MaxLines)
    /\ last_title = NoTitle
    /\ programmes = <<>>
    /\ all_programmes = <<>>
    /\ final = <<>>

\* main holds the programmes of the two scrapers
InitMain ==
    /\ pc = "main_sort"
    /\ caller = "direct"
    /\ raised = "none"
    /\ items = <<>>
    /\ base_date = 0
    /\ ta_points = <<>>
    /\ channel_id = TA_CHANNEL_ID
    /\ points = <<>>
    /\ fixed = <<>>
    /\ last_dt = 0
    /\ progs = <<>>
    /\ i = 1
    /\ guide_lines = <<>>
    /\ last_title = NoTitle
    /\ programmes = <<>>
    /\ all_programmes \in SeqsUpTo(InputProgrammes, MaxProgs)
    /\ final = <<>>

\* scrape_teleamazonas starts the body of its day loop on one article, the
\* day being a Monday (day 0) or a Tuesday (day 1)
InitTa ==
    /\ pc = "ta_extract"
    /\ caller = "ta"
    /\ raised = "none"
    /\ items \in SeqsUpTo(InputItems, MaxItems) \cup {MondayPanel}
    /\ base_date \in {0, DayMinutes}
    /\ ta_points = <<>>
    /\ channel_id = TA_CHANNEL_ID
    /\ points = <<>>
    /\ fixed = <<>>
    /\ last_dt = 0
    /\ progs = <<>>
    /\ i = 1
    /\ guide_lines = <<>>
    /\ last_title = NoTitle
    /\ programmes = <<>>
    /\ all_programmes = <<>>
    /\ final = <<>>

PtpNext ==
    \/ PtpEnter
    \/ NormalizeStep
    \/ NormalizeDone
    \/ BuildStep
    \/ PtpReturn

Init == InitPtp \/ InitEcdf \/ InitMain

Next ==
    \/ PtpNext
    \/ EcdfScanStep
    \/ EcdfFinish
    \/ MainAggregate

\* points_to_programmes, scrape_ecdf and the aggregation of main, each from
\* its own inputs
Spec == Init /\ [][Next]_vars

NextTa ==
    \/ TaExtractStep
    \/ TaExtractReturn
    \/ PtpNext
    \/ TaExtend
    \/ TaFinish

\* one day of scrape_teleamazonas: extraction, points_to_programmes, sort/dedup
SpecTa == InitTa /\ [][NextTa]_vars

-----------------------------------------------------------------------------
(* Properties of points_to_programmes. *)

\* points_to_programmes is running or has returned
InPtp == pc \in {"ptp_norm", "ptp_build", "ptp_ret"}

\* the instants of a list of points
Instants(ps) == [k \in DOMAIN ps |-> ps[k].dt]

\* C1: every Programme that is produced has stop strictly after start, those
\* points_to_programmes builds (identical instants included) and those the
\* range loop of scrape_ecdf appends (end <= start included).
C1_StopAfterStart ==
    /\ \A k \in DOMAIN progs : progs[k].stop > progs[k].start
    /\ \A k \in DOMAIN programmes : programmes[k].stop > programmes[k].start

\* C1, its case: two points with identical instants have gone through
\* points_to_programmes, and the first got the default 30 minutes.
C1_Witness ==
    /\ pc = "ptp_ret"
    /\ \E k \in 1..(Len(fixed) - 1) :
          /\ fixed[k + 1].dt = fixed[k].dt
          /\ progs[k].stop = progs[k].start + 30

\* C2: the normalized list `fixed` is non-decreasing whatever the order of the
\* input, and so are the starts of the programmes built from it.
C2_Monotonic ==
    /\ \A k \in 1..(Len(fixed) - 1) : fixed[k + 1].dt >= fixed[k].dt
    /\ \A k \in 1..(Len(progs) - 1) : progs[k + 1].start >= progs[k].start

\* C2, its case: the input was out of order by more than a day and the
\* programmes have been returned.
C2_Witness ==
    /\ pc = "ptp_ret"
    /\ Len(progs) >= 2
    /\ \E k \in 1..(Len(points) - 1) : points[k + 1].dt + 1440 < points[k].dt

\* C3: a point earlier than the last accepted instant by 8 hours or less keeps
\* its date and leaves the last accepted instant as it was; 06:00, 05:55,
\* 07:00 all stay on the anchor date.  (The last accepted instant when point k
\* is reached is fixed[k - 1].dt: last_dt is set to every appended instant.)
C3_SmallGlitchNonCascade ==
    InPtp =>
        /\ \A k \in 2..Len(fixed) :
              (/\ points[k].dt < fixed[k - 1].dt
               /\ fixed[k - 1].dt - points[k].dt <= 480)
                 => /\ fixed[k].dt = points[k].dt
                    /\ (pc = "ptp_norm" /\ Len(fixed) = k) => last_dt = fixed[k - 1].dt
        /\ (pc = "ptp_ret" /\ Instants(points) = <<360, 355, 420>>)
              => Instants(fixed) = <<360, 355, 420>>

\* C4: a point earlier than the last accepted instant by more than 8 hours is
\* moved forward by whole days, as few as make it >= the last accepted instant,
\* keeps its clock time and becomes the last accepted instant; 22:00, 01:00
\* gives 01:00 of the next day.
C4_MidnightRollover ==
    InPtp =>
        /\ \A k \in 2..Len(fixed) :
              (fixed[k - 1].dt - points[k].dt > 480)
                 => /\ fixed[k].dt >= fixed[k - 1].dt
                    /\ fixed[k].dt - 1440 < fixed[k - 1].dt
                    /\ fixed[k].dt > points[k].dt
                    /\ (fixed[k].dt - points[k].dt) % 1440 = 0
        /\ pc = "ptp_norm" => last_dt = fixed[Len(fixed)].dt
        /\ (Len(fixed) = 2 /\ Instants(points) = <<1320, 60>>)
              => fixed[2].dt = 1440 + 60

\* C4, its case: 22:00 then 01:00 have been normalized.
C4_Witness ==
    /\ pc = "ptp_ret"
    /\ Instants(points) = <<1320, 60>>
    /\ Instants(fixed) = <<1320, 1500>>

\* C5: one programme per point, in input order, with the point's title and the
\* channel; programme k starts at the normalized instant of point k and stops
\* at the normalized instant of point k + 1 when there is one and it is
\* strictly later, and 30 minutes after its start otherwise.
C5_StopInference ==
    pc = "ptp_ret" =>
        /\ Len(progs) = Len(points)
        /\ Len(fixed) = Len(points)
        /\ \A k \in DOMAIN progs :
              /\ progs[k].title = points[k].title
              /\ progs[k].channel_id = channel_id
              /\ progs[k].start = fixed[k].dt
              /\ progs[k].stop =
                    IF k < Len(fixed) /\ fixed[k + 1].dt > fixed[k].dt
                    THEN fixed[k + 1].dt
                    ELSE fixed[k].dt + 30

\* C5, its case: three points with distinct titles, the second strictly later
\* than the first and the third at the instant of the second.
C5_Witness ==
    /\ pc = "ptp_ret"
    /\ Len(progs) = 3
    /\ progs[1].title # progs[2].title
    /\ progs[1].stop = progs[2].start
    /\ progs[2].start > progs[1].start
    /\ progs[3].start = progs[2].start
    /\ progs[2].stop = progs[2].start + 30
    /\ progs[3].stop = progs[3].start + 30

-----------------------------------------------------------------------------
(* Properties of the aggregation of main. *)

\* C8: the list the global sort/dedup returns holds no two programmes with the
\* same (channel_id, start, stop, lowercase title), and the sort/dedup applied
\* to it again returns it unchanged.
C8_IdempotentDedup ==
    pc = "main_done" =>
        /\ \A j, k \in DOMAIN final :
              (/\ final[j].channel_id = final[k].channel_id
               /\ final[j].start = final[k].start
               /\ final[j].stop = final[k].stop
               /\ Lower(final[j].title) = Lower(final[k].title)) => j = k
        /\ MainSortDedup(final) = final

\* C8, its case: the input was out of order and held a duplicate that differs
\* in letter case only, and the dedup has dropped it.
C8_Witness ==
    /\ pc = "main_done"
    /\ Len(all_programmes) = 3
    /\ Len(final) = 2
    /\ all_programmes[1].title = L_Golf
    /\ all_programmes[2].title = T_Gala
    /\ all_programmes[3].title = L_GOLF
    /\ final[1].title = T_Gala
    /\ final[2].title = L_Golf

-----------------------------------------------------------------------------
(* Properties of the line scan of scrape_ecdf. *)

\* line k of the guide is a time range line
IsRangeLine(k) == MatchRange(guide_lines[k]).ok

\* line k of the guide is a meaningful line that is no time range
IsTitleLine(k) == ~IsRangeLine(k) /\ _meaningful_line(guide_lines[k])

\* the last line before line k that is a time range or a meaningful line, or 0
LastMarkBefore(k) ==
    LET M == {t \in 1..(k - 1) : IsRangeLine(t) \/ IsTitleLine(t)}
    IN  IF M = {} THEN 0 ELSE CHOOSE t \in M : \A u \in M : u <= t

\* line k is a time range line with a title line since the time range line before it
Produces(k) ==
    /\ IsRangeLine(k)
    /\ LastMarkBefore(k) # 0
    /\ IsTitleLine(LastMarkBefore(k))

\* the (title, start) pairs the lines 1..n are to give, in order
RECURSIVE ExpectedPairs(_)
ExpectedPairs(n) ==
    IF n = 0 THEN <<>>
    ELSE IF Produces(n)
         THEN Append(ExpectedPairs(n - 1),
                     <<guide_lines[LastMarkBefore(n)],
                       60 * MatchRange(guide_lines[n]).sh + MatchRange(guide_lines[n]).sm>>)
         ELSE ExpectedPairs(n - 1)

\* C10: scanning the guide in order, a time range line gives at most one
\* programme, titled by the most recent meaningful line since the time range
\* line before it; a title is used once; a time range line without such a title
\* gives nothing; a denylisted line is never a title.
C10_TitleTimePairing ==
    pc \in {"ecdf_scan", "ecdf_done"} =>
        /\ [k \in DOMAIN programmes |-> <<programmes[k].title, programmes[k].start>>]
              = ExpectedPairs(i - 1)
        /\ Len(programmes) <= Cardinality({k \in 1..(i - 1) : IsRangeLine(k)})
        /\ \A k \in DOMAIN programmes : Lower(programmes[k].title) \notin BadLines
        /\ \A k \in DOMAIN final :
              /\ Lower(final[k].title) \notin BadLines
              /\ \E j \in DOMAIN programmes : programmes[j] = final[k]

\* C10, its case: a title, a denylisted line, a time range that takes the
\* title, and a second time range that finds none.
C10_Witness ==
    /\ pc = "ecdf_done"
    /\ guide_lines = <<L_LigaPro, L_EnVivo, R_1000_1100, R_2300_0100>>
    /\ Len(programmes) = 1
    /\ programmes[1].title = L_LigaPro
    /\ final = programmes

-----------------------------------------------------------------------------
(* Properties of the Teleamazonas day: extraction, then points_to_programmes. *)

\* the time text the extractor reads from item k is H:MM or HH:MM with the
\* hour in 0..23 and the minute in 0..59
WellFormedTime(k) ==
    LET s == clean_text(items[k].span)
    IN  MatchesHHMM(s) /\ HourOf(s) \in 0..23 /\ MinuteOf(s) \in 0..59

\* item k has a time text and a title text
HasTexts(k) ==
    /\ items[k].has_span /\ items[k].has_p
    /\ clean_text(items[k].span) # <<>> /\ clean_text(items[k].p) # <<>>

\* C6: a malformed or out-of-range time token (25:00, 12:75) never raises and
\* never gives a point: the item is skipped, no exception leaves the extractor,
\* and the other items of the day are still extracted.
C6_MalformedTimeSkipped ==
    /\ raised # "ValueError"
    /\ pc = "ta_extract" =>
          Len(ta_points) = Cardinality({k \in 1..(i - 1) : HasTexts(k) /\ WellFormedTime(k)})

\* C7: the Monday panel 05:00 Despertar, 06:00 Noticias, 23:30 Cine, 00:15
\* Madrugada, through the extractor and points_to_programmes, gives Despertar
\* Mon 05:00-06:00, Noticias Mon 06:00-23:30, Cine Mon 23:30-Tue 00:15,
\* Madrugada Tue 00:15-00:45, in that order.
C7_EndToEnd ==
    (pc \in {"ptp_ret", "ta_sort", "ta_done"} /\ items = MondayPanel /\ base_date = 0) =>
        progs = <<Programme(TA_CHANNEL_ID, 300, 360, T_Despertar),
                  Programme(TA_CHANNEL_ID, 360, 1410, T_Noticias),
                  Programme(TA_CHANNEL_ID, 1410, 1455, T_Cine),
                  Programme(TA_CHANNEL_ID, 1455, 1485, T_Madrugada)>>

\* t holds sub, a substring match
Contains(t, sub) ==
    \E k \in 1..(Len(t) - Len(sub) + 1) : SubSeq(t, k, k + Len(sub) - 1) = sub

\* "guayaquil", the keyword of the secondary city
KW_Secondary == Lower(SubSeq(T_NoticiasGuayaquil, 10, 18))

\* "quito", the keyword of the primary city
KW_Primary == Lower(SubSeq(T_NoticiasQuito, 10, 14))

\* the channels main declares
MainChannels == {TA_CHANNEL_ID, ECDF_CHANNEL_ID}

\* the channels that carry a programme of point k of the day
ChannelsOfPoint(k) ==
    {final[j].channel_id : j \in {n \in DOMAIN final :
        final[n].title = fixed[k].title /\ final[n].start = fixed[k].dt}}

\* C9: every point is routed by a case-insensitive substring match on its
\* title: with the keyword of the secondary city to the secondary channel only,
\* else with the keyword of the primary city to the primary channel only, else
\* to both channels (whichever of the declared channels is the primary one).
C9_Routing ==
    pc = "ta_done" =>
        \E primary, secondary \in MainChannels :
            /\ primary # secondary
            /\ \A k \in DOMAIN fixed :
                  ChannelsOfPoint(k) =
                      IF Contains(Lower(fixed[k].title), KW_Secondary) THEN {secondary}
                      ELSE IF Contains(Lower(fixed[k].title), KW_Primary) THEN {primary}
                      ELSE {primary, secondary}

====
